---- MODULE Spec2Model ----
(***************************************************************************)
(* Model of packages/fs-aws/src/credentials.ts: the credential provider    *)
(* (AwsS3CredentialProvider), its lazily fetched configuration documents   *)
(* (FsConfigFetcher) and the cache of role-scoped file systems; and of     *)
(* packages/source-aws-v3/src/s3.v3.ts: the S3LikeV3 wrapper, its upload   *)
(* sizes and the read stream of getObject.                                 *)
(*                                                                         *)
(* Strings are sequences of tokens, so that startsWith and the template    *)
(* string of the cache key are computed as the code computes them.         *)
(* Every find() call is a record of `calls`; its pc is the await it is     *)
(* suspended on ("config": `await this.config`, "creds": `await            *)
(* this.findCredentials(path)`) or "done".  The promise that               *)
(* fs.read(..).then(..).then(..) returns is an entry of `reads`, a client  *)
(* is its index in `created`.  Documents hold descriptors, as their type   *)
(* AwsCredentialProvider says.                                             *)
(*                                                                         *)
(* History kept for the properties: the outcome of each read, the awaits   *)
(* each call has come back from (`awaited`, `val`), whether the callback   *)
(* was set when a client was built (`cb`) and whether the client was in    *)
(* the cache when the callback ran (`cached`).                             *)
(*                                                                         *)
(* Specifications: Spec is the provider with its callback; SpecDuration    *)
(* the provider whose owner changes defaultSessionDuration; SpecFair the   *)
(* lookups under fair scheduling of their continuations; SpecUnchecked the *)
(* provider given every descriptor its types admit; SpecS3 the S3LikeV3    *)
(* wrapper, whose read stream is a record of `streams`.                    *)
(***************************************************************************)
EXTENDS Integers, Sequences, FiniteSets, TLC

VARIABLES
    configs,             \* AwsS3CredentialProvider.configs
    fileSystems,         \* AwsS3CredentialProvider.fileSystems : cacheKey -> client
    onFileSystemCreated, \* "unset" or "set": the optional callback
    reads,               \* every fs.read issued, with the promise chained on it
    calls,               \* every find() call, running or completed
    created,             \* every client built by createFileSystem (client = index)
    observed,            \* every invocation of onFileSystemCreated
    defaultSessionDuration, \* AwsS3CredentialProvider.defaultSessionDuration
    streams,             \* every stream createReadStream() has returned
    uploads              \* every Upload that upload() has started

\* the state of the credential provider and the state of the S3LikeV3 wrapper
credVars == <<configs, fileSystems, onFileSystemCreated, reads, calls, created, observed,
              defaultSessionDuration>>
s3Vars == <<streams, uploads>>

vars == <<credVars, s3Vars>>

\* ---------------------------------------------------------------- bounds
MaxConfigs == 2
MaxCalls == 2

\* ---------------------------------------------------------------- values
Undefined == [has |-> FALSE, val |-> <<>>]
Some(v) == [has |-> TRUE, val |-> v]
UndefinedNum == [has |-> FALSE, val |-> 0]

\* the arguments of register(): descriptors without their type.  Both match
\* the longer URL, only the first matches the shorter one.
RegisterArgs ==
    { [prefix |-> <<"a">>, roleArn |-> <<"r1">>, externalId |-> Undefined,
       roleSessionDuration |-> UndefinedNum],
      [prefix |-> <<"a", "x">>, roleArn |-> <<"r2">>, externalId |-> Some(<<"e">>),
       roleSessionDuration |-> Some(900)] }

WithType(f) ==
    [prefix |-> f.prefix, roleArn |-> f.roleArn, externalId |-> f.externalId,
     roleSessionDuration |-> f.roleSessionDuration, type |-> "s3"]

\* the entries of the valid configuration document: both match the longer URL,
\* none the shorter; DocA has the role of the first inline descriptor
DocA == WithType([prefix |-> <<"a", "x">>, roleArn |-> <<"r1">>,
                  externalId |-> Undefined, roleSessionDuration |-> UndefinedNum])
DocB == WithType([prefix |-> <<"a", "x">>, roleArn |-> <<"r3">>,
                  externalId |-> Undefined, roleSessionDuration |-> Some(900)])

NoCred == WithType([prefix |-> <<>>, roleArn |-> <<>>, externalId |-> Undefined,
                    roleSessionDuration |-> UndefinedNum])

\* the URLs looked up (their href) and the locations of the documents
Hrefs == { <<"a", "x">>, <<"a">> }
Locs == { "s3://cfg/creds.json" }

\* JSON values a document can parse to
JsonNull == [type |-> "null", v |-> 0, prefixes |-> "absent", items |-> <<>>]
JsonDoc(v, p, items) == [type |-> "object", v |-> v, prefixes |-> p, items |-> items]

NoOutcome == [ok |-> FALSE, text |-> "pending", json |-> JsonNull]

\* what fs.read can end with: a rejection, or the bytes of the document
ReadOutcomes ==
    { [ok |-> FALSE, text |-> "", json |-> JsonNull],                    \* read rejects
      [ok |-> TRUE, text |-> "malformed", json |-> JsonNull],            \* not JSON
      [ok |-> TRUE, text |-> "json", json |-> JsonNull],                 \* null
      [ok |-> TRUE, text |-> "json", json |-> JsonDoc(1, "array", <<DocA, DocB>>)],
      [ok |-> TRUE, text |-> "json", json |-> JsonDoc(2, "absent", <<>>)],
      [ok |-> TRUE, text |-> "json", json |-> JsonDoc(2, "scalar", <<>>)],
      [ok |-> TRUE, text |-> "json", json |-> JsonDoc(2, "array", <<DocA, DocB>>)] }

\* ---------------------------------------------------------------- strings
StartsWith(href, prefix) ==
    /\ Len(prefix) <= Len(href)
    /\ SubSeq(href, 1, Len(prefix)) = prefix

Digit(d) == <<"0", "1", "2", "3", "4", "5", "6", "7", "8", "9">>[d + 1]

RECURSIVE NumStr(_)
NumStr(n) == IF n < 10 THEN <<Digit(n)>> ELSE NumStr(n \div 10) \o <<Digit(n % 10)>>

\* `${x}` of an optional string / an optional number
StrOf(x) == IF x.has THEN x.val ELSE <<"undefined">>
NumOf(x) == IF x.has THEN NumStr(x.val) ELSE <<"undefined">>

\* ---------------------------------------------------------------- results
NoError == <<>>
Fulfilled(v) == [kind |-> "value", cred |-> v, err |-> NoError]
Null == [kind |-> "null", cred |-> NoCred, err |-> NoError]
Rejected(e) == [kind |-> "error", cred |-> NoCred, err |-> e]
Pending == [kind |-> "pending", cred |-> NoCred, err |-> NoError]

\* ---------------------------------------------------------------- validateConfig
ValidationTexts ==
    { "Unknown configuration from:", "Configuration is not v2 from:",
      "Configuration prefixes invalid from:" }

\* the validation without its check of the version
validateConfig_NoVersionCheck(cfg, loc) ==
    IF cfg.type = "null" THEN [ok |-> FALSE, err |-> <<"Unknown configuration from:", loc>>, cfg |-> cfg]
    ELSE IF cfg.prefixes # "array"
         THEN [ok |-> FALSE, err |-> <<"Configuration prefixes invalid from:", loc>>, cfg |-> cfg]
    ELSE [ok |-> TRUE, err |-> NoError, cfg |-> cfg]

validateConfig(cfg, loc) ==
    IF cfg.type = "null" THEN [ok |-> FALSE, err |-> <<"Unknown configuration from:", loc>>, cfg |-> cfg]
    ELSE IF cfg.v # 2 THEN [ok |-> FALSE, err |-> <<"Configuration is not v2 from:", loc>>, cfg |-> cfg]
    ELSE IF cfg.prefixes # "array"
         THEN [ok |-> FALSE, err |-> <<"Configuration prefixes invalid from:", loc>>, cfg |-> cfg]
    ELSE [ok |-> TRUE, err |-> NoError, cfg |-> cfg]

\* JSON.parse(f.toString())
JsonParse(text, json) ==
    IF text = "json" THEN [ok |-> TRUE, err |-> NoError, cfg |-> json]
    ELSE [ok |-> FALSE, err |-> <<"SyntaxError">>, cfg |-> JsonNull]

\* fs.read(loc).then(parse).then(validate): how the promise settles
SettleConfig(outcome, loc) ==
    IF ~outcome.ok THEN [state |-> "rejected", err |-> <<"read failed">>, cfg |-> JsonNull]
    ELSE LET parsed == JsonParse(outcome.text, outcome.json) IN
         IF ~parsed.ok THEN [state |-> "rejected", err |-> parsed.err, cfg |-> JsonNull]
         ELSE LET valid == validateConfig(parsed.cfg, loc) IN
              IF ~valid.ok THEN [state |-> "rejected", err |-> valid.err, cfg |-> JsonNull]
              ELSE [state |-> "fulfilled", err |-> NoError, cfg |-> valid.cfg]

\* ---------------------------------------------------------------- FsConfigFetcher
NewFetcher(loc) == [kind |-> "fetcher", loc |-> loc, _config |-> 0, cred |-> NoCred]
Inline(c) == [kind |-> "inline", loc |-> "", _config |-> 0, cred |-> c]

\* the getter without the memo: every use reads the document again
config_NoMemo(fetcher, i, rs) ==
    LET p == Len(rs) + 1 IN
    [promise |-> p,
     fetcher |-> [fetcher EXCEPT !._config = p],
     reads |-> Append(rs, [loc |-> fetcher.loc, fetcher |-> i, state |-> "pending",
                           outcome |-> [ok |-> FALSE, text |-> "pending", json |-> JsonNull],
                           err |-> NoError, cfg |-> JsonNull])]

\* the getter retrying after a failure: a rejected memo is fetched again
config_RetryRejected(fetcher, i, rs) ==
    IF fetcher._config # 0 /\ rs[fetcher._config].state # "rejected"
    THEN [promise |-> fetcher._config, fetcher |-> fetcher, reads |-> rs]
    ELSE LET p == Len(rs) + 1 IN
         [promise |-> p,
          fetcher |-> [fetcher EXCEPT !._config = p],
          reads |-> Append(rs, [loc |-> fetcher.loc, fetcher |-> i, state |-> "pending",
                                outcome |-> [ok |-> FALSE, text |-> "pending", json |-> JsonNull],
                                err |-> NoError, cfg |-> JsonNull])]

\* get config(): the memoized promise, issuing the read on first use.
\* Yields the promise, and the fetcher and the reads as the getter leaves them.
config(fetcher, i, rs) ==
    IF fetcher._config # 0
    THEN [promise |-> fetcher._config, fetcher |-> fetcher, reads |-> rs]
    ELSE LET p == Len(rs) + 1 IN
         [promise |-> p,
          fetcher |-> [fetcher EXCEPT !._config = p],
          reads |-> Append(rs, [loc |-> fetcher.loc, fetcher |-> i, state |-> "pending",
                                outcome |-> NoOutcome, err |-> NoError, cfg |-> JsonNull])]

\* the loop without its early return: the last matching entry wins
RECURSIVE ScanPrefixes_LastMatch(_, _, _)
ScanPrefixes_LastMatch(items, href, k) ==
    IF k > Len(items) THEN Null
    ELSE LET rest == ScanPrefixes_LastMatch(items, href, k + 1) IN
         IF rest.kind = "value" THEN rest
         ELSE IF StartsWith(href, items[k].prefix) THEN Fulfilled(items[k])
         ELSE Null

\* the loop of FsConfigFetcher.findCredentials over cfg.prefixes
RECURSIVE ScanPrefixes(_, _, _)
ScanPrefixes(items, href, k) ==
    IF k > Len(items) THEN Null
    ELSE IF StartsWith(href, items[k].prefix) THEN Fulfilled(items[k])
    ELSE ScanPrefixes(items, href, k + 1)

\* ---------------------------------------------------------------- provider
\* a scan that waits for the documents of the loaders before it looks at the
\* inline descriptors
ScanConfigs_LoadersFirst(cfgs, href, i) ==
    LET loaders == { k \in i..Len(cfgs) : cfgs[k].kind = "fetcher" }
        matches == { k \in i..Len(cfgs) : /\ cfgs[k].kind = "inline"
                                          /\ StartsWith(href, cfgs[k].cred.prefix) }
        first(S) == CHOOSE x \in S : \A y \in S : x <= y IN
    IF loaders # {} THEN [stop |-> "await", idx |-> first(loaders), cs |-> Null]
    ELSE IF matches # {}
    THEN [stop |-> "return", idx |-> first(matches), cs |-> Fulfilled(cfgs[first(matches)].cred)]
    ELSE [stop |-> "return", idx |-> Len(cfgs) + 1, cs |-> Null]

\* the loop of AwsS3CredentialProvider.findCredentials from source i on, up to
\* its return or to the fetcher it has to wait for
RECURSIVE ScanConfigs(_, _, _)
ScanConfigs(cfgs, href, i) ==
    IF i > Len(cfgs) THEN [stop |-> "return", idx |-> i, cs |-> Null]
    ELSE IF cfgs[i].kind = "fetcher" THEN [stop |-> "await", idx |-> i, cs |-> Null]
    ELSE IF StartsWith(href, cfgs[i].cred.prefix)
         THEN [stop |-> "return", idx |-> i, cs |-> Fulfilled(cfgs[i].cred)]
    ELSE ScanConfigs(cfgs, href, i + 1)

\* a key that also tells the prefixes apart
cacheKey_WithPrefix(cs) ==
    cs.prefix \o <<"__">> \o cs.roleArn \o <<"__">> \o StrOf(cs.externalId) \o <<"__">>
        \o NumOf(cs.roleSessionDuration)

cacheKey(cs) ==
    cs.roleArn \o <<"__">> \o StrOf(cs.externalId) \o <<"__">> \o NumOf(cs.roleSessionDuration)

\* a ?? b
Coalesce(a, b) == IF a.has THEN a ELSE b

\* a client built without looking at the provider's default
createFileSystem_NoDefault(cs) ==
    [RoleArn |-> cs.roleArn, ExternalId |-> cs.externalId,
     DurationSeconds |-> cs.roleSessionDuration]

\* the client createFileSystem builds, by the parameters it is built with
createFileSystem(cs) ==
    [RoleArn |-> cs.roleArn, ExternalId |-> cs.externalId,
     DurationSeconds |-> Coalesce(cs.roleSessionDuration, defaultSessionDuration)]

NoResult == [kind |-> "none", client |-> 0, err |-> NoError]

\* ---------------------------------------------------------------- Init
\* a new S3LikeV3 has returned no stream and started no upload
InitS3 ==
    /\ streams = <<>>
    /\ uploads = <<>>

Init ==
    /\ configs = <<>>
    /\ fileSystems = <<>>
    /\ onFileSystemCreated = "unset"
    /\ reads = <<>>
    /\ calls = <<>>
    /\ created = <<>>
    /\ observed = <<>>
    /\ defaultSessionDuration = UndefinedNum
    /\ InitS3

\* ---------------------------------------------------------------- actions
register(f) ==
    /\ Len(configs) < MaxConfigs
    /\ configs' = Append(configs, Inline(WithType(f)))
    /\ UNCHANGED <<fileSystems, onFileSystemCreated, reads, calls, created, observed>>
    /\ UNCHANGED <<defaultSessionDuration, s3Vars>>

\* a registration that starts the fetch at once
registerConfig_Eager(loc) ==
    /\ Len(configs) < MaxConfigs
    /\ LET g == config(NewFetcher(loc), Len(configs) + 1, reads) IN
       /\ configs' = Append(configs, g.fetcher)
       /\ reads' = g.reads
    /\ UNCHANGED <<fileSystems, onFileSystemCreated, calls, created, observed>>
    /\ UNCHANGED <<defaultSessionDuration, s3Vars>>

registerConfig(loc) ==
    /\ Len(configs) < MaxConfigs
    /\ configs' = Append(configs, NewFetcher(loc))
    /\ UNCHANGED <<fileSystems, onFileSystemCreated, reads, calls, created, observed>>
    /\ UNCHANGED <<defaultSessionDuration, s3Vars>>

\* what provider.findCredentials does from source i on until it suspends:
\* it returns (pc "creds") or awaits the config of the fetcher it reached
findCredentialsFrom(cfgs, rs, href, i) ==
    LET s == ScanConfigs(cfgs, href, i) IN
    IF s.stop = "return"
    THEN [pc |-> "creds", idx |-> s.idx, promise |-> 0, cs |-> s.cs,
          configs |-> cfgs, reads |-> rs]
    ELSE LET g == config(cfgs[s.idx], s.idx, rs) IN
         [pc |-> "config", idx |-> s.idx, promise |-> g.promise, cs |-> Pending,
          configs |-> [cfgs EXCEPT ![s.idx] = g.fetcher], reads |-> g.reads]

\* find(path) is called: it runs up to its first await
find(path) ==
    /\ Len(calls) < MaxCalls
    /\ LET r == findCredentialsFrom(configs, reads, path, 1) IN
       /\ configs' = r.configs
       /\ reads' = r.reads
       /\ calls' = Append(calls, [path |-> path, pc |-> r.pc, idx |-> r.idx,
                                  promise |-> r.promise, val |-> Pending, cs |-> r.cs,
                                  awaited |-> <<>>, result |-> NoResult])
    /\ UNCHANGED <<fileSystems, onFileSystemCreated, created, observed>>
    /\ UNCHANGED <<defaultSessionDuration, s3Vars>>

\* the file system completes a read: the chained promise settles
ReadSettle(p, outcome) ==
    /\ reads[p].state = "pending"
    /\ LET s == SettleConfig(outcome, reads[p].loc) IN
       reads' = [reads EXCEPT ![p] = [@ EXCEPT !.state = s.state, !.outcome = outcome,
                                               !.err = s.err, !.cfg = s.cfg]]
    /\ UNCHANGED <<configs, fileSystems, onFileSystemCreated, calls, created, observed>>
    /\ UNCHANGED <<defaultSessionDuration, s3Vars>>

\* FsConfigFetcher.findCredentials after `await this.config`
fetcherFindCredentials(promise, href) ==
    IF promise.state = "rejected" THEN Rejected(promise.err)
    ELSE ScanPrefixes(promise.cfg.items, href, 1)

\* a failing document treated like a document without a match
afterFetcher_Swallow(val) ==
    IF val.kind = "value" THEN "return" ELSE "continue"

\* provider.findCredentials after `await cfg.findCredentials(loc)`:
\* a rejection propagates, a descriptor is returned, null goes on with the loop
afterFetcher(val) ==
    IF val.kind = "error" THEN "throw"
    ELSE IF val.kind = "value" THEN "return"
    ELSE "continue"

\* The read a call waits for has settled: FsConfigFetcher.findCredentials goes
\* on after `await this.config` and settles, then provider.findCredentials goes
\* on after `await cfg.findCredentials(loc)` up to its return or its next await.
\* The first continuation only computes val from the settled document, which
\* nothing changes any more, so the two are one step.
ResumeConfig(c) ==
    /\ calls[c].pc = "config"
    /\ reads[calls[c].promise].state # "pending"
    /\ LET p == reads[calls[c].promise]
           val == fetcherFindCredentials(p, calls[c].path)
           seen == Append(calls[c].awaited, [fetcher |-> calls[c].idx,
                                             promise |-> calls[c].promise,
                                             state |-> p.state, err |-> p.err,
                                             cfg |-> p.cfg])
       IN
       IF afterFetcher(val) = "continue"
       THEN LET r == findCredentialsFrom(configs, reads, calls[c].path, calls[c].idx + 1) IN
            /\ configs' = r.configs
            /\ reads' = r.reads
            /\ calls' = [calls EXCEPT ![c] = [@ EXCEPT !.pc = r.pc, !.idx = r.idx,
                                                       !.promise = r.promise,
                                                       !.val = val, !.cs = r.cs,
                                                       !.awaited = seen]]
       ELSE /\ calls' = [calls EXCEPT ![c] = [@ EXCEPT !.pc = "creds", !.val = val,
                                                       !.cs = val, !.awaited = seen]]
            /\ UNCHANGED <<configs, reads>>
    /\ UNCHANGED <<fileSystems, onFileSystemCreated, created, observed>>
    /\ UNCHANGED <<defaultSessionDuration, s3Vars>>

\* a lookup under a key nothing is stored under: it never hits
get_WrongKey(fsys, key) == 0

\* this.fileSystems.get(cacheKey): 0 stands for undefined
get(fsys, key) == IF key \in DOMAIN fsys THEN fsys[key] ELSE 0

\* the callback invoked before the client is stored
notify_BeforeStore(obs, cb, cs, client, fsysBefore, fsysAfter) ==
    IF cb = "set"
    THEN Append(obs, [acc |-> cs, fs |-> client,
                      cached |-> (IF cacheKey(cs) \in DOMAIN fsysBefore
                                  THEN fsysBefore[cacheKey(cs)] ELSE 0) = client])
    ELSE obs

\* this.onFileSystemCreated?.(cs, existing), called with the cache as it then is
notify(obs, cb, cs, client, fsysBefore, fsysAfter) ==
    IF cb = "set"
    THEN Append(obs, [acc |-> cs, fs |-> client,
                      cached |-> get(fsysAfter, cacheKey(cs)) = client])
    ELSE obs

\* a find that answers no-match with a client of its own
findTail_DefaultClient(cs, fsys, crt, obs, cb) ==
    IF cs.kind = "error"
    THEN [result |-> [kind |-> "error", client |-> 0, err |-> cs.err],
          fileSystems |-> fsys, created |-> crt, observed |-> obs]
    ELSE LET key == cacheKey(cs.cred)
             existing == IF key \in DOMAIN fsys THEN fsys[key] ELSE 0 IN
         IF existing # 0
         THEN [result |-> [kind |-> "client", client |-> existing, err |-> NoError],
               fileSystems |-> fsys, created |-> crt, observed |-> obs]
         ELSE LET client == Len(crt) + 1
                  stored == (key :> client) @@ fsys IN
              [result |-> [kind |-> "client", client |-> client, err |-> NoError],
               fileSystems |-> stored,
               created |-> Append(crt, [cs |-> cs.cred, key |-> key, cb |-> cb,
                                        params |-> createFileSystem(cs.cred)]),
               observed |-> IF cb = "set"
                            THEN Append(obs, [acc |-> cs.cred, fs |-> client, cached |-> TRUE])
                            ELSE obs]

\* a cache that keeps only the client stored last
findTail_SingleEntry(cs, fsys, crt, obs, cb) ==
    IF cs.kind = "error"
    THEN [result |-> [kind |-> "error", client |-> 0, err |-> cs.err],
          fileSystems |-> fsys, created |-> crt, observed |-> obs]
    ELSE IF cs.kind = "null"
    THEN [result |-> [kind |-> "null", client |-> 0, err |-> NoError],
          fileSystems |-> fsys, created |-> crt, observed |-> obs]
    ELSE LET key == cacheKey(cs.cred)
             existing == get(fsys, key) IN
         IF existing # 0
         THEN [result |-> [kind |-> "client", client |-> existing, err |-> NoError],
               fileSystems |-> fsys, created |-> crt, observed |-> obs]
         ELSE LET client == Len(crt) + 1
                  stored == (key :> client) IN
              [result |-> [kind |-> "client", client |-> client, err |-> NoError],
               fileSystems |-> stored,
               created |-> Append(crt, [cs |-> cs.cred, key |-> key, cb |-> cb,
                                        params |-> createFileSystem(cs.cred)]),
               observed |-> notify(obs, cb, cs.cred, client, fsys, stored)]

\* find after `await this.findCredentials(path)`
findTail(cs, fsys, crt, obs, cb) ==
    IF cs.kind = "error"
    THEN [result |-> [kind |-> "error", client |-> 0, err |-> cs.err],
          fileSystems |-> fsys, created |-> crt, observed |-> obs]
    ELSE IF cs.kind = "null"
    THEN [result |-> [kind |-> "null", client |-> 0, err |-> NoError],
          fileSystems |-> fsys, created |-> crt, observed |-> obs]
    ELSE LET key == cacheKey(cs.cred)
             existing == get(fsys, key) IN
         IF existing # 0
         THEN [result |-> [kind |-> "client", client |-> existing, err |-> NoError],
               fileSystems |-> fsys, created |-> crt, observed |-> obs]
         ELSE LET client == Len(crt) + 1
                  stored == (key :> client) @@ fsys IN
              [result |-> [kind |-> "client", client |-> client, err |-> NoError],
               fileSystems |-> stored,
               created |-> Append(crt, [cs |-> cs.cred, key |-> key, cb |-> cb,
                                        params |-> createFileSystem(cs.cred)]),
               observed |-> notify(obs, cb, cs.cred, client, fsys, stored)]

\* a find that never answers when no credentials were found
ResumeFind_SilentOnNull(c) ==
    /\ calls[c].pc = "creds"
    /\ calls[c].cs.kind # "null"
    /\ LET r == findTail(calls[c].cs, fileSystems, created, observed, onFileSystemCreated) IN
       /\ fileSystems' = r.fileSystems
       /\ created' = r.created
       /\ observed' = r.observed
       /\ calls' = [calls EXCEPT ![c] = [@ EXCEPT !.pc = "done", !.result = r.result]]
    /\ UNCHANGED <<configs, onFileSystemCreated, reads>>
    /\ UNCHANGED <<defaultSessionDuration, s3Vars>>

ResumeFind(c) ==
    /\ calls[c].pc = "creds"
    /\ LET r == findTail(calls[c].cs, fileSystems, created, observed, onFileSystemCreated) IN
       /\ fileSystems' = r.fileSystems
       /\ created' = r.created
       /\ observed' = r.observed
       /\ calls' = [calls EXCEPT ![c] = [@ EXCEPT !.pc = "done", !.result = r.result]]
    /\ UNCHANGED <<configs, onFileSystemCreated, reads>>
    /\ UNCHANGED <<defaultSessionDuration, s3Vars>>

\* the owner assigns or clears the optional callback
SetOnFileSystemCreated(v) ==
    /\ onFileSystemCreated # v
    /\ onFileSystemCreated' = v
    /\ UNCHANGED <<configs, fileSystems, reads, calls, created, observed>>
    /\ UNCHANGED <<defaultSessionDuration, s3Vars>>

Next ==
    \/ \E f \in RegisterArgs : register(f)
    \/ \E loc \in Locs : registerConfig(loc)
    \/ \E path \in Hrefs : find(path)
    \/ \E p \in DOMAIN reads, outcome \in ReadOutcomes : ReadSettle(p, outcome)
    \/ \E c \in DOMAIN calls : ResumeConfig(c)
    \/ \E c \in DOMAIN calls : ResumeFind(c)
    \/ \E v \in {"unset", "set"} : SetOnFileSystemCreated(v)

Spec == Init /\ [][Next]_vars

\* ------------------------------------------------------- fair scheduling
\* The continuation of a settled promise is a queued microtask and the event
\* loop runs every queued microtask: a call that can go on does go on.
\* Nothing makes the file system complete a read, so a read may stay pending.
Fairness ==
    \A c \in 1..MaxCalls :
        /\ WF_vars(c \in DOMAIN calls /\ ResumeConfig(c))
        /\ WF_vars(c \in DOMAIN calls /\ ResumeFind(c))

\* the lookups alone: the owner sets no callback and no default duration
NextLookups ==
    \/ \E f \in RegisterArgs : register(f)
    \/ \E loc \in Locs : registerConfig(loc)
    \/ \E path \in Hrefs : find(path)
    \/ \E p \in DOMAIN reads, outcome \in ReadOutcomes : ReadSettle(p, outcome)
    \/ \E c \in DOMAIN calls : ResumeConfig(c)
    \/ \E c \in DOMAIN calls : ResumeFind(c)

SpecFair == Init /\ [][NextLookups]_vars /\ Fairness

\* ------------------------------------------------- descriptors as typed
\* register() and validateConfig() look at no field of a descriptor, so any
\* value of the type AwsCredentialConfig gets in: here an external id that
\* reads "undefined", beside the role of the first inline descriptor, and a
\* descriptor whose prefix is the empty string
UncheckedArgs ==
    { [prefix |-> <<"a", "x">>, roleArn |-> <<"r1">>,
       externalId |-> Some(<<"undefined">>), roleSessionDuration |-> UndefinedNum],
      [prefix |-> <<>>, roleArn |-> <<"r4">>, externalId |-> Undefined,
       roleSessionDuration |-> UndefinedNum] }

\* a v2 document whose one entry has the empty prefix
UncheckedOutcomes ==
    { [ok |-> TRUE, text |-> "json",
       json |-> JsonDoc(2, "array", <<WithType([prefix |-> <<>>, roleArn |-> <<"r4">>,
                                                externalId |-> Undefined,
                                                roleSessionDuration |-> UndefinedNum])>>)] }

NextUnchecked ==
    \/ \E f \in RegisterArgs \cup UncheckedArgs : register(f)
    \/ \E loc \in Locs : registerConfig(loc)
    \/ \E path \in Hrefs : find(path)
    \/ \E p \in DOMAIN reads, outcome \in ReadOutcomes \cup UncheckedOutcomes :
           ReadSettle(p, outcome)
    \/ \E c \in DOMAIN calls : ResumeConfig(c)
    \/ \E c \in DOMAIN calls : ResumeFind(c)

SpecUnchecked == Init /\ [][NextUnchecked]_vars

\* ------------------------------------------- the default session duration
\* the values the owner gives the field: none, or the documented 3600 seconds
SessionDurations == { UndefinedNum, Some(3600) }

\* the owner assigns the provider's default session duration
SetDefaultSessionDuration(v) ==
    /\ defaultSessionDuration # v
    /\ defaultSessionDuration' = v
    /\ UNCHANGED <<configs, fileSystems, onFileSystemCreated, reads, calls, created, observed>>
    /\ UNCHANGED s3Vars

\* the provider whose owner changes the default duration and sets no callback
NextDuration ==
    \/ \E f \in RegisterArgs : register(f)
    \/ \E loc \in Locs : registerConfig(loc)
    \/ \E path \in Hrefs : find(path)
    \/ \E p \in DOMAIN reads, outcome \in ReadOutcomes : ReadSettle(p, outcome)
    \/ \E c \in DOMAIN calls : ResumeConfig(c)
    \/ \E c \in DOMAIN calls : ResumeFind(c)
    \/ \E v \in SessionDurations : SetDefaultSessionDuration(v)

SpecDuration == Init /\ [][NextDuration]_vars

\* ================================================================ S3LikeV3
MaxStreams == 2
MaxChunks == 2
MaxUploads == 2

\* the constant and the defaults of the two upload fields
OneMegaByte == 1024 * 1204
uploadQueueSize == 4
uploadPartSize == 10 * OneMegaByte

\* what client.send(cmd) settles with: a rejection, a response without Body,
\* a response with a Body stream
SendOutcomes == { "rejected", "nobody", "body" }

\* createReadStream(): a new PassThrough is returned at once and the request
\* is sent; `send` is the state of the promise of client.send, `handled`
\* tells whether the then/catch handler has run, `body` is the state of
\* r.Body, `sent` counts the chunks the body has emitted and `received` those
\* written to the PassThrough, `pt` is the state of the PassThrough
createReadStream ==
    /\ Len(streams) < MaxStreams
    /\ streams' = Append(streams, [send |-> "pending", handled |-> FALSE, body |-> "none",
                                    sent |-> 0, received |-> 0, pt |-> "open"])
    /\ UNCHANGED uploads
    /\ UNCHANGED credVars

\* the promise of client.send(cmd) settles
SendSettle(s, r) ==
    /\ streams[s].send = "pending"
    /\ streams' = [streams EXCEPT ![s].send = r]
    /\ UNCHANGED uploads
    /\ UNCHANGED credVars

\* the handler chained on the promise runs: a Body is piped into the
\* PassThrough, a response without Body ends it, a rejection is emitted on it
ThenCatch(s) ==
    /\ streams[s].send # "pending"
    /\ ~streams[s].handled
    /\ streams' = [streams EXCEPT ![s] =
           [@ EXCEPT !.handled = TRUE,
                     !.body = IF streams[s].send = "body" THEN "flowing" ELSE @,
                     !.pt = IF streams[s].send = "nobody" THEN "ended"
                            ELSE IF streams[s].send = "rejected" THEN "errored"
                            ELSE @]]
    /\ UNCHANGED uploads
    /\ UNCHANGED credVars

\* the piped Body emits a chunk: pipe writes it to the PassThrough
BodyData(s) ==
    /\ streams[s].body = "flowing"
    /\ streams[s].sent < MaxChunks
    /\ streams' = [streams EXCEPT ![s] = [@ EXCEPT !.sent = @ + 1, !.received = @ + 1]]
    /\ UNCHANGED uploads
    /\ UNCHANGED credVars

\* the piped Body ends: pipe ends the PassThrough
BodyEnd(s) ==
    /\ streams[s].body = "flowing"
    /\ streams' = [streams EXCEPT ![s] = [@ EXCEPT !.body = "ended", !.pt = "ended"]]
    /\ UNCHANGED uploads
    /\ UNCHANGED credVars

\* the piped Body fails: Readable.pipe neither ends the destination nor
\* passes the error on to it, and nothing else listens to the Body
BodyError(s) ==
    /\ streams[s].body = "flowing"
    /\ streams' = [streams EXCEPT ![s] = [@ EXCEPT !.body = "errored"]]
    /\ UNCHANGED uploads
    /\ UNCHANGED credVars

\* upload(req): an Upload is started with the two fields as they are
upload ==
    /\ Len(uploads) < MaxUploads
    /\ uploads' = Append(uploads, [queueSize |-> uploadQueueSize, partSize |-> uploadPartSize])
    /\ UNCHANGED streams
    /\ UNCHANGED credVars

NextS3 ==
    \/ createReadStream
    \/ \E s \in DOMAIN streams, r \in SendOutcomes : SendSettle(s, r)
    \/ \E s \in DOMAIN streams : ThenCatch(s)
    \/ \E s \in DOMAIN streams : BodyData(s)
    \/ \E s \in DOMAIN streams : BodyEnd(s)
    \/ \E s \in DOMAIN streams : BodyError(s)
    \/ upload

SpecS3 == Init /\ [][NextS3]_vars

\* ================================================================ properties
ReadsOf(i) == { p \in DOMAIN reads : reads[p].fetcher = i }

\* the awaits of `this.config` a call has come back from
Awaits(c) == { calls[c].awaited[k] : k \in DOMAIN calls[c].awaited }

\* the call's scan has reached source i and used its config getter
Reached(c, i) ==
    \/ calls[c].pc = "config" /\ calls[c].idx = i
    \/ \E a \in Awaits(c) : a.fetcher = i

\* C1: fetch-once.  However many calls reach one fetcher, before or after its
\* read completes, the fetcher's document is read exactly once, and all the
\* calls that waited for it got the same outcome: the one document or the one
\* error.
FetchOnce ==
    \A i \in DOMAIN configs :
        /\ Cardinality(ReadsOf(i)) <= 1
        /\ (\E c \in DOMAIN calls : Reached(c, i)) => Cardinality(ReadsOf(i)) = 1
        /\ \A c1, c2 \in DOMAIN calls :
              /\ (Reached(c1, i) /\ Reached(c2, i) /\ calls[c1].pc = "config"
                    /\ calls[c2].pc = "config" /\ calls[c1].idx = i /\ calls[c2].idx = i)
                   => calls[c1].promise = calls[c2].promise
              /\ \A a1 \in Awaits(c1), a2 \in Awaits(c2) :
                    a1.fetcher = i /\ a2.fetcher = i
                        => /\ a1.promise = a2.promise
                           /\ a1.state = a2.state
                           /\ a1.err = a2.err
                           /\ a1.cfg = a2.cfg
                           /\ a1.state \in {"fulfilled", "rejected"}

\* one call has got the document of a fetcher and scanned it while another,
\* started before it, is still to resume from the same read
FetchOnceWitness ==
    \E c1, c2 \in DOMAIN calls :
        /\ c1 < c2
        /\ calls[c1].pc = "config"
        /\ calls[c1].idx = 1
        /\ \E a \in Awaits(c2) :
              /\ a.promise = calls[c1].promise
              /\ a.state = "fulfilled"
        /\ Cardinality(ReadsOf(1)) = 1

\* C6: a failure is memoized.  A fetcher whose fetch has failed is never read
\* again, and every call that reaches it, also after the failure, fails with
\* the error of that one fetch.
FailureMemoized ==
    \A p \in DOMAIN reads :
        reads[p].state = "rejected" =>
            /\ configs[reads[p].fetcher]._config = p
            /\ ReadsOf(reads[p].fetcher) = {p}
            /\ \A c \in DOMAIN calls :
                  /\ (calls[c].pc = "config" /\ calls[c].idx = reads[p].fetcher)
                       => calls[c].promise = p
                  /\ \A a \in Awaits(c) :
                        a.fetcher = reads[p].fetcher
                            => a.state = "rejected" /\ a.err = reads[p].err
                  /\ (calls[c].pc # "config" /\ calls[c].idx = reads[p].fetcher
                        /\ Reached(c, reads[p].fetcher))
                       => /\ calls[c].val = Rejected(reads[p].err)
                          /\ calls[c].pc \in {"creds", "done"}
                                => calls[c].cs = Rejected(reads[p].err)
                          /\ calls[c].pc = "done"
                                => calls[c].result = [kind |-> "error", client |-> 0,
                                                      err |-> reads[p].err]

\* a find has failed on a fetcher, and a find started later has reached the
\* same fetcher and failed in the same way, one read having been issued
FailureMemoizedWitness ==
    \E c1, c2 \in DOMAIN calls :
        /\ c1 < c2
        /\ calls[c1].pc = "done" /\ calls[c2].pc = "done"
        /\ calls[c1].result.kind = "error"
        /\ calls[c2].result = calls[c1].result
        /\ calls[c1].idx = calls[c2].idx
        /\ Cardinality(ReadsOf(calls[c1].idx)) = 1

\* C2: client identity.  Two completed find calls whose resolved descriptors
\* agree on roleArn, externalId and roleSessionDuration returned the same
\* client, whatever their prefixes and URLs.
Identity(d) == <<d.roleArn, d.externalId, d.roleSessionDuration>>

ClientIdentity ==
    \A c1, c2 \in DOMAIN calls :
        (/\ calls[c1].result.kind = "client"
         /\ calls[c2].result.kind = "client"
         /\ Identity(calls[c1].cs.cred) = Identity(calls[c2].cs.cred))
            => calls[c1].result.client = calls[c2].result.client

\* two calls resolved to descriptors of one identity and different prefixes
ClientIdentityWitness ==
    \E c1, c2 \in DOMAIN calls :
        /\ calls[c1].result.kind = "client"
        /\ calls[c2].result.kind = "client"
        /\ Identity(calls[c1].cs.cred) = Identity(calls[c2].cs.cred)
        /\ calls[c1].cs.cred.prefix # calls[c2].cs.cred.prefix

\* C3: at most one construction per key.  No two clients were ever built for
\* the same cache key, however the find calls interleave.
AtMostOneConstruction ==
    \A i, j \in DOMAIN created : created[i].key = created[j].key => i = j

\* two calls that waited for the same document read both got a client for one
\* key, and one client was built
AtMostOneConstructionWitness ==
    \E c1, c2 \in DOMAIN calls :
        /\ c1 < c2
        /\ calls[c1].result.kind = "client"
        /\ calls[c2].result.kind = "client"
        /\ cacheKey(calls[c1].cs.cred) = cacheKey(calls[c2].cs.cred)
        /\ calls[c2].result.client = calls[c1].result.client
        /\ \E a1 \in Awaits(c1), a2 \in Awaits(c2) : a1.promise = a2.promise
        /\ Len(created) = 1

\* C4: first match in registration order.  When findCredentials returns without
\* having met a failing document, it returns the descriptor of the first source,
\* in registration order, that matches the URL: an inline descriptor whose prefix
\* the href starts with, or a document with such an entry, of which the first in
\* document order is taken; and it returns null iff no registered source matches.
IsTextualPrefix(p, h) == \E n \in 0..Len(h) : p = SubSeq(h, 1, n)

MatchingEntries(cfgs, rs, i, href) ==
    IF cfgs[i]._config # 0 /\ rs[cfgs[i]._config].state = "fulfilled"
    THEN LET items == rs[cfgs[i]._config].cfg.items IN
         { k \in DOMAIN items : IsTextualPrefix(items[k].prefix, href) }
    ELSE {}

SourceMatches(cfgs, rs, i, href) ==
    IF cfgs[i].kind = "inline" THEN IsTextualPrefix(cfgs[i].cred.prefix, href)
    ELSE MatchingEntries(cfgs, rs, i, href) # {}

Least(S) == CHOOSE x \in S : \A y \in S : x <= y

SourceDescriptor(cfgs, rs, i, href) ==
    IF cfgs[i].kind = "inline" THEN cfgs[i].cred
    ELSE rs[cfgs[i]._config].cfg.items[Least(MatchingEntries(cfgs, rs, i, href))]

\* what the claim says findCredentials(href) returns with these sources
FirstMatching(cfgs, rs, href) ==
    LET M == { i \in DOMAIN cfgs : SourceMatches(cfgs, rs, i, href) } IN
    IF M = {} THEN Null ELSE Fulfilled(SourceDescriptor(cfgs, rs, Least(M), href))

\* in this step findCredentials of call c returns a value
Returns(c) ==
    /\ c \in DOMAIN calls'
    /\ calls'[c].pc = "creds"
    /\ calls'[c].cs.kind # "error"
    /\ c \in DOMAIN calls => calls[c].pc # "creds"

FirstMatch ==
    [][\A c \in 1..(Len(calls) + 1) :
          Returns(c) => calls'[c].cs = FirstMatching(configs', reads', calls'[c].path)]_vars

\* a document with two matching entries won over a later matching source
FirstMatchWitness ==
    \E c \in DOMAIN calls :
        /\ calls[c].pc = "creds"
        /\ calls[c].cs.kind = "value"
        /\ configs[calls[c].idx].kind = "fetcher"
        /\ Cardinality(MatchingEntries(configs, reads, calls[c].idx, calls[c].path)) > 1
        /\ \E j \in DOMAIN configs :
              j > calls[c].idx /\ SourceMatches(configs, reads, j, calls[c].path)

\* C5: no fall-through.  A call whose scan reached a document whose fetch,
\* parse or validation failed fails with that error: the failing document is
\* the last source it looked at, and it yields neither a descriptor, a client
\* nor null.
NoFallThrough ==
    \A c \in DOMAIN calls :
        \A k \in DOMAIN calls[c].awaited :
            LET a == calls[c].awaited[k] IN
            a.state = "rejected" =>
                /\ k = Len(calls[c].awaited)
                /\ calls[c].idx = a.fetcher
                /\ calls[c].pc \in {"creds", "done"}
                /\ calls[c].val = Rejected(a.err)
                /\ calls[c].pc \in {"creds", "done"} => calls[c].cs = Rejected(a.err)
                /\ calls[c].pc = "done"
                      => calls[c].result = [kind |-> "error", client |-> 0, err |-> a.err]

\* a find failed on a document although a source registered after it matches
NoFallThroughWitness ==
    \E c \in DOMAIN calls :
        /\ calls[c].pc = "done"
        /\ calls[c].result.kind = "error"
        /\ \E j \in DOMAIN configs :
              /\ j > calls[c].idx
              /\ configs[j].kind = "inline"
              /\ IsTextualPrefix(configs[j].cred.prefix, calls[c].path)

\* C7: no-match is a value and has no effect.  When findCredentials met no
\* failing document and none of the sources it went through matches the URL,
\* the step that completes find returns null and leaves the cache, the clients
\* built and the callback's invocations as they were.
NoMatchNoEffect ==
    [][\A c \in DOMAIN calls :
          (/\ calls[c].pc = "creds"
           /\ calls'[c].pc = "done"
           /\ calls[c].cs.kind # "error"
           /\ { i \in DOMAIN configs : /\ i <= calls[c].idx
                                       /\ SourceMatches(configs, reads, i, calls[c].path) } = {})
              => /\ calls'[c].result = [kind |-> "null", client |-> 0, err |-> NoError]
                 /\ UNCHANGED <<fileSystems, created, observed>>]_vars

\* a find returned null after a document without a match, the cache being in use
NoMatchNoEffectWitness ==
    \E c \in DOMAIN calls :
        /\ calls[c].pc = "done"
        /\ calls[c].result.kind = "null"
        /\ \E a \in Awaits(c) : a.state = "fulfilled"
        /\ DOMAIN fileSystems # {}

\* C8: the creation observer.  The callback has been invoked exactly once for
\* every client built while it was set and never otherwise, each time with the
\* descriptor the client was built for and with the client already in the
\* cache under its key.
Observations(i) == { k \in DOMAIN observed : observed[k].fs = i }

CreationObserver ==
    /\ \A k \in DOMAIN observed :
          /\ observed[k].fs \in DOMAIN created
          /\ observed[k].acc = created[observed[k].fs].cs
          /\ observed[k].cached
    /\ \A i \in DOMAIN created :
          Cardinality(Observations(i)) = IF created[i].cb = "set" THEN 1 ELSE 0

\* one find built and announced a client, another got it from the cache
CreationObserverWitness ==
    /\ Len(observed) = 1
    /\ \E c1, c2 \in DOMAIN calls :
          /\ c1 # c2
          /\ calls[c1].result.kind = "client"
          /\ calls[c2].result.kind = "client"
          /\ calls[c1].result.client = observed[1].fs
          /\ calls[c2].result.client = observed[1].fs

\* C9: invalid documents are rejected.  A document that is null, has a v
\* other than 2 or has no array of prefixes makes its fetch fail with a
\* validation error naming the document's location; every call that waited
\* for it fails with that error and none gets one of its entries.
InvalidDocument(o) ==
    /\ o.ok
    /\ o.text = "json"
    /\ (o.json.type = "null" \/ o.json.v # 2 \/ o.json.prefixes # "array")

InvalidRejected ==
    \A p \in DOMAIN reads :
        (reads[p].state # "pending" /\ InvalidDocument(reads[p].outcome)) =>
            /\ reads[p].state = "rejected"
            /\ reads[p].err[1] \in ValidationTexts
            /\ \E k \in DOMAIN reads[p].err : reads[p].err[k] = reads[p].loc
            /\ \A c \in DOMAIN calls :
                  \A k \in DOMAIN calls[c].awaited :
                      calls[c].awaited[k].promise = p =>
                          /\ calls[c].awaited[k].err = reads[p].err
                          /\ k = Len(calls[c].awaited)
                          /\ calls[c].val = Rejected(reads[p].err)
                          /\ calls[c].cs.kind # "value"
                          /\ calls[c].pc = "done"
                                => calls[c].result = [kind |-> "error", client |-> 0,
                                                      err |-> reads[p].err]

\* a find failed on a version 1 document that has entries matching its URL
InvalidRejectedWitness ==
    \E c \in DOMAIN calls :
        /\ calls[c].pc = "done"
        /\ calls[c].result.kind = "error"
        /\ \E a \in Awaits(c) :
              /\ reads[a.promise].outcome.json.v = 1
              /\ \E k \in DOMAIN reads[a.promise].outcome.json.items :
                    IsTextualPrefix(reads[a.promise].outcome.json.items[k].prefix,
                                    calls[c].path)

\* C10: lazy fetch.  Every read that was issued is the read of a fetcher that
\* some call's scan has reached, after every earlier source was found not to
\* match that call's URL (an earlier document having been fetched and scanned).
\* So a registration issues no read, and neither does a call for a fetcher
\* behind a matching source or behind a document it still waits for.
LazyFetch ==
    /\ \A i \in DOMAIN configs : configs[i]._config # 0 => configs[i]._config \in ReadsOf(i)
    /\ \A p \in DOMAIN reads :
          \E c \in DOMAIN calls :
              /\ Reached(c, reads[p].fetcher)
              /\ \A j \in 1..(reads[p].fetcher - 1) :
                    /\ ~SourceMatches(configs, reads, j, calls[c].path)
                    /\ configs[j].kind = "fetcher"
                          => \E a \in Awaits(c) : a.fetcher = j /\ a.state = "fulfilled"

\* a call waits for a document while a fetcher registered after it is unread
LazyFetchWitness ==
    \E c \in DOMAIN calls :
        /\ calls[c].pc = "config"
        /\ reads[calls[c].promise].state = "pending"
        /\ \E j \in DOMAIN configs :
              j > calls[c].idx /\ configs[j].kind = "fetcher" /\ ReadsOf(j) = {}

\* ---------------------------------------------------------------- C11
\* C11: cache entries are permanent: a key that the cache maps to a client is
\* mapped to that same client after every step, whatever the step is; nothing
\* deletes or overwrites an entry.
CachePermanent ==
    [][\A k \in DOMAIN fileSystems :
          k \in DOMAIN fileSystems' /\ fileSystems'[k] = fileSystems[k]]_vars

\* two clients are cached: the second was stored next to the first, which a
\* completed call has returned
CachePermanentWitness ==
    /\ Cardinality(DOMAIN fileSystems) = 2
    /\ Len(created) = 2
    /\ fileSystems[created[1].key] = 1
    /\ fileSystems[created[2].key] = 2
    /\ \E c \in DOMAIN calls : calls[c].pc = "done" /\ calls[c].result.client = 1

\* ---------------------------------------------------------------- C12
\* C12: session duration defaulting: a client is built with DurationSeconds
\* equal to its descriptor's roleSessionDuration when the descriptor has one,
\* otherwise to the provider's defaultSessionDuration as it is when the client
\* is built, which is unset when the owner has set none.
DurationDefaulting ==
    [][\A i \in DOMAIN created' \ DOMAIN created :
          created'[i].params.DurationSeconds =
              IF created'[i].cs.roleSessionDuration.has
              THEN created'[i].cs.roleSessionDuration
              ELSE defaultSessionDuration]_vars

\* one client took the provider's default, set by then, and another its
\* descriptor's own duration
DurationDefaultingWitness ==
    \E i, j \in DOMAIN created :
        /\ ~created[i].cs.roleSessionDuration.has
        /\ created[i].params.DurationSeconds = Some(3600)
        /\ created[j].cs.roleSessionDuration = Some(900)
        /\ created[j].params.DurationSeconds = Some(900)

\* ---------------------------------------------------------------- C13
\* call c has completed, with a client, null or an error
Completed(c) == c \in DOMAIN calls /\ calls[c].pc = "done"

\* call c waits on the document read of a loader, and the read has not settled
Hung(c) ==
    /\ c \in DOMAIN calls
    /\ calls[c].pc = "config"
    /\ reads[calls[c].promise].state = "pending"

\* C13: lookup completion: as long as the read a call waits on stays unsettled
\* the call does not move, whatever else happens (no timeout, no
\* cancellation); and under fair scheduling there is a time from which on
\* every find call made has completed or waits on a document read that has
\* not settled.  A completed call stays completed, so each call eventually
\* completes or waits for ever on a read that never settles.
LookupCompletion ==
    /\ [][\A c \in DOMAIN calls :
              (Hung(c) /\ reads'[calls[c].promise].state = "pending")
                  => calls'[c] = calls[c]]_vars
    /\ <>[](\A c \in DOMAIN calls : Completed(c) \/ Hung(c))

\* one call has completed after the read it waited on settled, while another
\* waits on a read that has not settled
LookupCompletionWitness ==
    \E c1, c2 \in DOMAIN calls :
        /\ Completed(c1)
        /\ calls[c1].awaited # <<>>
        /\ Hung(c2)

\* ---------------------------------------------------------------- C14
\* the sources that end or suspend the scan for href: loaders and matching
\* inline descriptors
Deciding(href) ==
    { i \in DOMAIN configs :
         configs[i].kind = "fetcher" \/ StartsWith(href, configs[i].cred.prefix) }

\* call c is resolved using inline descriptors only: no loader stands before
\* the first matching inline descriptor, or there is no loader and no match
InlineOnly(c) ==
    LET D == Deciding(calls[c].path) IN D = {} \/ configs[Least(D)].kind = "inline"

\* C14 as stated: a lookup resolved using inline descriptors only has no
\* suspension point: once such a find has started, the next thing that happens
\* is its cache population and completion; no other operation comes between.
InlineNeverSuspends ==
    [][\A c \in DOMAIN calls :
          (InlineOnly(c) /\ calls[c].pc # "done") => calls'[c].pc = "done"]_vars

\* C14, amended: a lookup resolved using inline descriptors only waits for no
\* document read: it is never suspended on a loader and has never been; its
\* only suspension is find's await of the settled findCredentials result.
InlineNoWait ==
    \A c \in DOMAIN calls :
        InlineOnly(c) => calls[c].pc # "config" /\ calls[c].awaited = <<>>

\* a find resolved by an inline descriptor is suspended at its await of
\* findCredentials, a loader stands unread behind the descriptor, and another
\* find has been started since
InlineNoWaitWitness ==
    \E c1, c2 \in DOMAIN calls :
        /\ c1 < c2
        /\ InlineOnly(c1)
        /\ calls[c1].pc = "creds"
        /\ calls[c1].cs.kind = "value"
        /\ \E i \in DOMAIN configs : configs[i].kind = "fetcher" /\ configs[i]._config = 0

\* ---------------------------------------------------------------- C15
\* C15: the cache key is injective, so the client a find returns was built for
\* the role, the external id and the session duration of the descriptor that
\* was resolved for the requested URL, absent being different from any value.
ReturnsOwnClient ==
    \A c \in DOMAIN calls :
        (calls[c].pc = "done" /\ calls[c].result.kind = "client")
            => Identity(created[calls[c].result.client].cs) = Identity(calls[c].cs.cred)

\* ---------------------------------------------------------------- C18
\* C18: every descriptor a lookup can return has a non-empty prefix: the
\* inline descriptors of configs and the entries of every document that
\* passed validation.
NonEmptyPrefix ==
    /\ \A i \in DOMAIN configs :
          configs[i].kind = "inline" => configs[i].cred.prefix # <<>>
    /\ \A p \in DOMAIN reads :
          reads[p].state = "fulfilled"
              => \A k \in DOMAIN reads[p].cfg.items : reads[p].cfg.items[k].prefix # <<>>

\* ---------------------------------------------------------------- C16
\* C16: OneMegaByte is one megabyte in bytes, 1024 * 1024 = 1048576, so the
\* default uploadPartSize is 10485760 and every upload started with the
\* defaults splits on 10485760 bytes.
UploadPartSizeTenMegabytes ==
    /\ OneMegaByte = 1048576
    /\ uploadPartSize = 10485760
    /\ \A u \in DOMAIN uploads : uploads[u].partSize = 10485760

\* ---------------------------------------------------------------- C17
\* nothing is left to happen to stream s: the handler of the request has run
\* and the Body, when there was one, has ended or failed
StreamQuiescent(s) == streams[s].handled /\ streams[s].body # "flowing"

\* C17: the read stream always terminates: once the request has run its
\* course the stream has ended or emitted an error: an error when send
\* rejected, the end when the response had no Body, the end after all the
\* data when the Body ended, an error when the Body failed part-way.
ReadStreamTerminates ==
    \A s \in DOMAIN streams :
        StreamQuiescent(s) =>
            /\ streams[s].pt \in { "ended", "errored" }
            /\ streams[s].send = "rejected" => streams[s].pt = "errored"
            /\ streams[s].send = "nobody" => streams[s].pt = "ended"
            /\ streams[s].body = "ended"
                   => streams[s].pt = "ended" /\ streams[s].received = streams[s].sent
            /\ streams[s].body = "errored" => streams[s].pt = "errored"
====
